---- MODULE Spec2Model ----
(***************************************************************************)
(* FireRenderViewport (FireRender.Maya.Src/FireRenderViewport.cpp): the    *)
(* viewport's render loop and its coordination between the Maya main       *)
(* thread and the dedicated RPR render thread.                             *)
(*                                                                         *)
(* Two threads execute code of the viewport: "main" (Maya callbacks and    *)
(* the public methods) and "render" (the render thread of                  *)
(* FireRenderThread).  pc[t] is the statement thread t is at.  start() and *)
(* stop() are plain member functions, so they execute on the thread of     *)
(* their caller; stopRet[t] / startRet[t] hold the statement the call      *)
(* returns to.                                                             *)
(*                                                                         *)
(* FireRenderThread, FireRenderContext and FireRenderError are defined     *)
(* outside this file.  Their model (RunOnceAndWait, KeepRunning,           *)
(* IsThreadRunning, the context Lock, m_error) follows the description of  *)
(* a single dedicated rendering thread that serves the main thread.        *)
(* failuresInARow, textureCreation and frameRenders are history variables: *)
(* they record what the code has done and are read by no action.           *)
(* InstancerMASH is specified apart, in InstancerSpec.                     *)
(* The warning dialog flags (m_showDialogNeeded, m_closeDialogNeeded) and  *)
(* the panel menu take no part in the control flow modelled here and are   *)
(* left out.                                                               *)
(***************************************************************************)
EXTENDS Integers, Sequences, FiniteSets, TLC

\* Bounds of the model.
MaxLoops == 2
MaxRaw == 3

\* FRMAYA_GL_MAX_TEXTURE_SIZE, scaled down to the sizes of the model.
FRMAYA_GL_MAX_TEXTURE_SIZE == 2

\* Largest instanceCount of a MASH instancer.
MaxInstances == 2

\* "if (m_renderingErrors > 3) throw;"
MaxRenderingErrors == 3

Threads == {"main", "render"}

\* Values of m_context.GetStateHash(); the panel name is fixed for a viewport.
StateHashes == {0, 1}

\* No stored frame (m_textureCache has no entry for the key).
NoFrame == <<>>

\* Sizes Maya's renderer may report as its output target size: one within
\* the maximum texture size and one that getSize() clamps.
RawSizes == {<<1, 1>>, <<MaxRaw, 1>>}

VARIABLES
    pc,                  \* [Threads -> statement]
    stopRet,             \* [Threads -> statement stop() returns to]
    startRet,            \* [Threads -> statement start() returns to]
    startResult,         \* value returned by start(): "none" until it returns
    mstatus,             \* MStatus returned to Maya: "none" until it returns
    m_isRunning,
    m_useAnimationCache,
    m_pixelsUpdated,
    m_pixelsLock,        \* owner of m_pixelsLock: "free", "main", "render"
    m_error,             \* m_error.check()
    m_renderingErrors,
    m_texture,           \* m_texture.texture != nullptr
    m_textureChanged,
    ctxState,            \* m_context.state
    ctxLock,             \* owner of the FireRenderContext::Lock
    ctxSize,             \* <<m_context.width(), m_context.height()>>
    glInterop,           \* m_context.isGLInteropActive()
    loops,               \* callbacks enqueued by KeepRunning and not yet ended
    task,                \* the RunOnceAndWait item of the main thread
    threadRunning,       \* FireRenderThread::IsThreadRunning()
    useAnimationCache,   \* doSetup's local
    dsSize,              \* doSetup's locals <<width, height>>
    frameHash,           \* renderCached's hash: NoFrame outside renderCached
    frameResized,        \* renderCached: result of frame.Resize(width, height)
    renderRequired,      \* "a render is required" in the current iteration
    refreshScheduled,    \* m_view.scheduleRefresh() is pending
    lockOldState,        \* state an asynchronous context Lock restores
    failuresInARow,      \* history: render iterations failed in a row
    changed,             \* hasTextureChanged's local
    textureCreation,     \* history: texture creations since hasTextureChanged()
    m_textureCache,      \* [StateHashes -> size of the stored frame or NoFrame]
    frameRenders,        \* history: [StateHashes -> renders since the cache clear]
    instanceCount,       \* InstancerMASH: the node's instanceCount attribute
    targetObjects,       \* InstancerMASH: number of GetTargetObjects()
    m_instancedObjects,  \* InstancerMASH: [index -> the instance is visible]
    m_instancedObjectsCachedSize,
    instancerDirty,      \* InstancerMASH: setDirty() was called
    ipc                  \* InstancerMASH: statement of the call in progress

viewportVars == <<pc, stopRet, startRet, startResult, mstatus, m_isRunning,
                  m_useAnimationCache, m_pixelsUpdated, m_pixelsLock, m_error,
                  m_renderingErrors, m_texture, m_textureChanged, ctxState, ctxLock,
                  ctxSize, glInterop, loops, task, threadRunning, useAnimationCache,
                  dsSize, frameHash, frameResized, renderRequired,
                  refreshScheduled, lockOldState, failuresInARow, changed,
                  textureCreation, m_textureCache, frameRenders>>

instancerVars == <<instanceCount, targetObjects, m_instancedObjects,
                   m_instancedObjectsCachedSize, instancerDirty, ipc>>

vars == <<viewportVars, instancerVars>>

\* Groups used by UNCHANGED.
callVars == <<stopRet, startRet>>
texVars == <<m_texture, m_textureChanged, textureCreation>>
lockVars == <<m_pixelsLock, ctxLock>>
dsLocals == <<useAnimationCache, dsSize, frameHash, frameResized>>
envVars == <<glInterop, threadRunning>>

Goto(t, p) == pc' = [pc EXCEPT ![t] = p]

\* getSize(): the clamp of the viewport size to the maximum texture size.
GetSize(raw) ==
    LET width == raw[1]
        height == raw[2]
    IN  IF width > height /\ width > FRMAYA_GL_MAX_TEXTURE_SIZE
        THEN <<FRMAYA_GL_MAX_TEXTURE_SIZE,
               (height * FRMAYA_GL_MAX_TEXTURE_SIZE) \div width>>
        ELSE IF height > FRMAYA_GL_MAX_TEXTURE_SIZE
        THEN <<(width * FRMAYA_GL_MAX_TEXTURE_SIZE) \div height,
               FRMAYA_GL_MAX_TEXTURE_SIZE>>
        ELSE <<width, height>>

\* m_textureCache.Clear(): no frame is stored any more.
ClearCache ==
    /\ m_textureCache' = [h \in StateHashes |-> NoFrame]
    /\ frameRenders' = [h \in StateHashes |-> 0]

\* The history of texture creations after one more creation: acquired tells
\* whether acquireTexture returned a texture.
Created(acquired) ==
    IF acquired \/ textureCreation = "created" THEN "created" ELSE "failed"

\* updateTexture(): creates the hardware texture when there is none (and
\* flags the change), updates the existing one in place otherwise.
\* acquired: whether acquireTexture returned a texture.
UpdateTexture(acquired) ==
    IF ~m_texture
    THEN /\ m_texture' = acquired
         /\ m_textureChanged' = TRUE
         /\ textureCreation' = Created(acquired)
    ELSE UNCHANGED texVars

\* The viewport after FireRenderViewport::FireRenderViewport.
ViewportInit ==
    /\ pc = [t \in Threads |-> "idle"]
    /\ stopRet = [t \in Threads |-> "idle"]
    /\ startRet = [t \in Threads |-> "idle"]
    /\ startResult = "none"
    /\ mstatus = "none"
    /\ m_isRunning = FALSE
    /\ m_useAnimationCache = TRUE
    /\ m_pixelsUpdated = FALSE
    /\ m_pixelsLock = "free"
    /\ m_error = FALSE
    /\ m_renderingErrors = 0
    /\ m_texture = FALSE
    /\ m_textureChanged = FALSE
    /\ ctxState = "StateUpdating"
    /\ ctxLock = "free"
    /\ ctxSize = <<0, 0>>
    /\ glInterop \in BOOLEAN
    /\ loops = 0
    /\ task = "none"
    /\ threadRunning = TRUE
    /\ useAnimationCache = FALSE
    /\ dsSize = <<0, 0>>
    /\ frameHash = NoFrame
    /\ frameResized = FALSE
    /\ renderRequired = FALSE
    /\ refreshScheduled = FALSE
    /\ lockOldState = "none"
    /\ failuresInARow = 0
    /\ changed = FALSE
    /\ textureCreation = "none"
    /\ m_textureCache = [h \in StateHashes |-> NoFrame]
    /\ frameRenders = [h \in StateHashes |-> 0]

\* No MASH instancer is in the scene.
NoInstancer ==
    /\ instanceCount = 0
    /\ targetObjects = 0
    /\ m_instancedObjects = <<>>
    /\ m_instancedObjectsCachedSize = 0
    /\ instancerDirty = FALSE
    /\ ipc = "none"

Init == ViewportInit /\ NoInstancer

(***************************************************************************)
(* stop() and start(), on the thread t of their caller.                    *)
(***************************************************************************)

\* MAIN_THREAD_ONLY / RPR_THREAD_ONLY: the thread the statement must be on.
MainThreadOnly(t) == t = "main"
RprThreadOnly(t) == t = "render"

\* stop(): while (m_isRunning && IsThreadRunning()) { state = StateExiting;
\* sleep }, then return to the caller.
StopWait(t) ==
    /\ pc[t] = "stop_wait"
    /\ IF m_isRunning /\ threadRunning
       THEN /\ ctxState' = "StateExiting"
            /\ UNCHANGED <<pc, stopRet>>
       ELSE /\ Goto(t, stopRet[t])
            /\ stopRet' = [stopRet EXCEPT ![t] = "idle"]
            /\ UNCHANGED ctxState
    /\ UNCHANGED <<frameRenders, m_textureCache, changed, failuresInARow,
                   lockOldState, refreshScheduled, renderRequired, startRet,
                   startResult, mstatus, m_isRunning, m_useAnimationCache,
                   m_pixelsUpdated, m_error, m_renderingErrors, texVars,
                   lockVars, ctxSize, envVars, loops, task, dsLocals,
                   instancerVars>>

\* start(): "Stop before restarting if already running."
StartBegin(t) ==
    /\ pc[t] = "start_begin"
    /\ IF m_isRunning
       THEN /\ Goto(t, "stop_wait")
            /\ stopRet' = [stopRet EXCEPT ![t] = "start_dims"]
       ELSE /\ Goto(t, "start_dims")
            /\ UNCHANGED stopRet
    /\ UNCHANGED <<frameRenders, m_textureCache, changed, failuresInARow,
                   lockOldState, refreshScheduled, renderRequired, startRet,
                   startResult, mstatus, m_isRunning, m_useAnimationCache,
                   m_pixelsUpdated, m_error, m_renderingErrors, texVars,
                   lockVars, ctxState, ctxSize, envVars, loops, task,
                   dsLocals, instancerVars>>

\* A start() that checks the width alone.
DimensionsInvalid_WidthOnly == ctxSize[1] = 0

\* start(): if (m_context.width() == 0 || m_context.height() == 0).
DimensionsInvalid == ctxSize[1] = 0 \/ ctxSize[2] = 0

\* start(): "Check dimensions are valid."
StartDims(t) ==
    /\ pc[t] = "start_dims"
    /\ IF DimensionsInvalid
       THEN /\ startResult' = "false"
            /\ Goto(t, startRet[t])
            /\ startRet' = [startRet EXCEPT ![t] = "idle"]
       ELSE /\ Goto(t, "start_set")
            /\ UNCHANGED <<startResult, startRet>>
    /\ UNCHANGED <<frameRenders, m_textureCache, changed, failuresInARow,
                   lockOldState, refreshScheduled, renderRequired, stopRet,
                   mstatus, m_isRunning, m_useAnimationCache, m_pixelsUpdated,
                   m_error, m_renderingErrors, texVars, lockVars, ctxState,
                   ctxSize, envVars, loops, task, dsLocals, instancerVars>>

\* start(): { FireRenderContext::Lock lock(&m_context, ...);
\* m_context.state = StateRendering; } - the Lock is acquired, the state is
\* set and the Lock is released at the end of the block.
StartSet(t) ==
    /\ pc[t] = "start_set"
    /\ ctxLock = "free"
    /\ ctxState' = "StateRendering"
    /\ Goto(t, "start_reset")
    /\ UNCHANGED <<frameRenders, m_textureCache, changed, failuresInARow,
                   lockOldState, refreshScheduled, renderRequired, callVars,
                   startResult, mstatus, m_isRunning, m_useAnimationCache,
                   m_pixelsUpdated, m_error, m_renderingErrors, texVars,
                   lockVars, ctxSize, envVars, loops, task, dsLocals,
                   instancerVars>>

\* start(): m_isRunning = false; m_renderingErrors = 0.
StartReset(t) ==
    /\ pc[t] = "start_reset"
    /\ m_isRunning' = FALSE
    /\ m_renderingErrors' = 0
    /\ failuresInARow' = 0
    /\ Goto(t, "start_enqueue")
    /\ UNCHANGED <<frameRenders, m_textureCache, changed, lockOldState,
                   refreshScheduled, renderRequired, callVars, startResult,
                   mstatus, m_useAnimationCache, m_pixelsUpdated, m_error,
                   texVars, lockVars, ctxState, ctxSize, envVars, loops, task,
                   dsLocals, instancerVars>>

\* start(): FireRenderThread::KeepRunning(...); return true.
StartEnqueue(t) ==
    /\ pc[t] = "start_enqueue"
    /\ loops' = loops + 1
    /\ startResult' = "true"
    /\ Goto(t, startRet[t])
    /\ startRet' = [startRet EXCEPT ![t] = "idle"]
    /\ UNCHANGED <<frameRenders, m_textureCache, changed, failuresInARow,
                   lockOldState, refreshScheduled, renderRequired, stopRet,
                   mstatus, m_isRunning, m_useAnimationCache, m_pixelsUpdated,
                   m_error, m_renderingErrors, texVars, lockVars, ctxState,
                   ctxSize, envVars, task, dsLocals, instancerVars>>

(***************************************************************************)
(* The public methods, called by Maya on the main thread.  A call starts   *)
(* when the main thread is idle; after ExitMaya only the destructor runs.  *)
(***************************************************************************)

\* Maya calls a method: no value has been returned yet.
CallBegins ==
    /\ mstatus' = "none"
    /\ startResult' = "none"

\* A setup() that copies the pixels whether they were updated or not.
TextureUpdateRequired_Always == ~glInterop

\* setup(): if (!m_context.isGLInteropActive() && m_pixelsUpdated).
TextureUpdateRequired == ~glInterop /\ m_pixelsUpdated

\* setup(): "Check if updating viewport's texture is required."  Maya calls
\* setup() when it refreshes the viewport, which serves a scheduled refresh.
SetupBegin ==
    /\ pc["main"] = "idle"
    /\ threadRunning
    /\ loops < MaxLoops
    /\ IF TextureUpdateRequired
       THEN Goto("main", "setup_lock")
       ELSE Goto("main", "setup_dispatch")
    /\ CallBegins
    /\ refreshScheduled' = FALSE
    /\ UNCHANGED <<frameRenders, m_textureCache, changed, failuresInARow,
                   lockOldState, renderRequired, callVars, m_isRunning,
                   m_useAnimationCache, m_pixelsUpdated, m_error,
                   m_renderingErrors, texVars, lockVars, ctxState, ctxSize,
                   envVars, loops, task, dsLocals, instancerVars>>

\* setup(): AutoMutexLock pixelsLock(m_pixelsLock).
SetupLock ==
    /\ pc["main"] = "setup_lock"
    /\ m_pixelsLock = "free"
    /\ m_pixelsLock' = "main"
    /\ Goto("main", "setup_tex")
    /\ UNCHANGED <<frameRenders, m_textureCache, changed, failuresInARow,
                   lockOldState, refreshScheduled, renderRequired, callVars,
                   startResult, mstatus, m_isRunning, m_useAnimationCache,
                   m_pixelsUpdated, m_error, m_renderingErrors, texVars,
                   ctxLock, ctxState, ctxSize, envVars, loops, task, dsLocals,
                   instancerVars>>

\* setup(): updateTexture(m_pixels.data(), ...), then the lock's scope ends.
SetupTex ==
    /\ pc["main"] = "setup_tex"
    /\ \E acquired \in BOOLEAN : UpdateTexture(acquired)
    /\ m_pixelsLock' = IF m_pixelsLock = "main" THEN "free" ELSE m_pixelsLock
    /\ Goto("main", "setup_dispatch")
    /\ UNCHANGED <<frameRenders, m_textureCache, changed, failuresInARow,
                   lockOldState, refreshScheduled, renderRequired, callVars,
                   startResult, mstatus, m_isRunning, m_useAnimationCache,
                   m_pixelsUpdated, m_error, m_renderingErrors, ctxLock,
                   ctxState, ctxSize, envVars, loops, task, dsLocals,
                   instancerVars>>

\* setup(): FireRenderThread::RunOnceAndWait(doSetup).
SetupDispatch ==
    /\ pc["main"] = "setup_dispatch"
    /\ task' = "q_doSetup"
    /\ Goto("main", "setup_wait")
    /\ UNCHANGED <<frameRenders, m_textureCache, changed, failuresInARow,
                   lockOldState, refreshScheduled, renderRequired, callVars,
                   startResult, mstatus, m_isRunning, m_useAnimationCache,
                   m_pixelsUpdated, m_error, m_renderingErrors, texVars,
                   lockVars, ctxState, ctxSize, envVars, loops, dsLocals,
                   instancerVars>>

\* setup(), cameraChanged(): RunOnceAndWait has returned the status.
RunOnceReturn ==
    /\ pc["main"] \in {"setup_wait", "camera_wait"}
    /\ task = "done"
    /\ task' = "none"
    /\ Goto("main", "idle")
    /\ UNCHANGED <<frameRenders, m_textureCache, changed, failuresInARow,
                   lockOldState, refreshScheduled, renderRequired, callVars,
                   startResult, mstatus, m_isRunning, m_useAnimationCache,
                   m_pixelsUpdated, m_error, m_renderingErrors, texVars,
                   lockVars, ctxState, ctxSize, envVars, loops, dsLocals,
                   instancerVars>>

\* start() called as a public method.
ApiStart ==
    /\ pc["main"] = "idle"
    /\ threadRunning
    /\ loops < MaxLoops
    /\ Goto("main", "start_begin")
    /\ startRet' = [startRet EXCEPT !["main"] = "idle"]
    /\ CallBegins
    /\ UNCHANGED <<frameRenders, m_textureCache, changed, failuresInARow,
                   lockOldState, refreshScheduled, renderRequired, stopRet,
                   m_isRunning, m_useAnimationCache, m_pixelsUpdated, m_error,
                   m_renderingErrors, texVars, lockVars, ctxState, ctxSize,
                   envVars, loops, task, dsLocals, instancerVars>>

\* stop() called as a public method.
ApiStop ==
    /\ pc["main"] = "idle"
    /\ threadRunning
    /\ Goto("main", "stop_wait")
    /\ stopRet' = [stopRet EXCEPT !["main"] = "idle"]
    /\ CallBegins
    /\ UNCHANGED <<frameRenders, m_textureCache, changed, failuresInARow,
                   lockOldState, refreshScheduled, renderRequired, startRet,
                   m_isRunning, m_useAnimationCache, m_pixelsUpdated, m_error,
                   m_renderingErrors, texVars, lockVars, ctxState, ctxSize,
                   envVars, loops, task, dsLocals, instancerVars>>

\* refresh() is called (the warning dialog is handled first).
RefreshBegin ==
    /\ pc["main"] = "idle"
    /\ threadRunning
    /\ Goto("main", "refresh")
    /\ CallBegins
    /\ UNCHANGED <<frameRenders, m_textureCache, changed, failuresInARow,
                   lockOldState, refreshScheduled, renderRequired, callVars,
                   m_isRunning, m_useAnimationCache, m_pixelsUpdated, m_error,
                   m_renderingErrors, texVars, lockVars, ctxState, ctxSize,
                   envVars, loops, task, dsLocals, instancerVars>>

\* refresh(): if (m_error.check()) return kFailure; return kSuccess.
Refresh ==
    /\ pc["main"] = "refresh"
    /\ mstatus' = IF m_error THEN "kFailure" ELSE "kSuccess"
    /\ Goto("main", "idle")
    /\ UNCHANGED <<frameRenders, m_textureCache, changed, failuresInARow,
                   lockOldState, refreshScheduled, renderRequired, callVars,
                   startResult, m_isRunning, m_useAnimationCache,
                   m_pixelsUpdated, m_error, m_renderingErrors, texVars,
                   lockVars, ctxState, ctxSize, envVars, loops, task,
                   dsLocals, instancerVars>>

\* setUseAnimationCache(value): sets the flag and schedules a refresh.
SetUseAnimationCache ==
    /\ pc["main"] = "idle"
    /\ threadRunning
    /\ \E value \in BOOLEAN : m_useAnimationCache' = value
    /\ refreshScheduled' = TRUE
    /\ CallBegins
    /\ UNCHANGED <<frameRenders, m_textureCache, changed, failuresInARow,
                   lockOldState, renderRequired, pc, callVars, m_isRunning,
                   m_pixelsUpdated, m_error, m_renderingErrors, texVars,
                   lockVars, ctxState, ctxSize, envVars, loops, task,
                   dsLocals, instancerVars>>

\* clearTextureCache(): clears the cache and schedules a refresh.
ClearTextureCache ==
    /\ pc["main"] = "idle"
    /\ threadRunning
    /\ ClearCache
    /\ refreshScheduled' = TRUE
    /\ CallBegins
    /\ UNCHANGED <<pc, changed, failuresInARow, lockOldState, renderRequired,
                   callVars, m_isRunning, m_useAnimationCache,
                   m_pixelsUpdated, m_error, m_renderingErrors, texVars,
                   lockVars, ctxState, ctxSize, envVars, loops, task,
                   dsLocals, instancerVars>>

\* A hasTextureChanged() that leaves the flag as it is.
TextureChangedCleared_Kept == m_textureChanged

\* hasTextureChanged(): m_textureChanged = false.
TextureChangedCleared == FALSE

\* hasTextureChanged(): bool changed = m_textureChanged.
HasTextureChangedRead ==
    /\ pc["main"] = "idle"
    /\ threadRunning
    /\ changed' = m_textureChanged
    /\ Goto("main", "htc_clear")
    /\ CallBegins
    /\ UNCHANGED <<frameRenders, m_textureCache, failuresInARow, lockOldState,
                   refreshScheduled, renderRequired, callVars, m_isRunning,
                   m_useAnimationCache, m_pixelsUpdated, m_error,
                   m_renderingErrors, texVars, lockVars, ctxState, ctxSize,
                   envVars, loops, task, dsLocals, instancerVars>>

\* hasTextureChanged(): m_textureChanged = false; return changed.
HasTextureChanged ==
    /\ pc["main"] = "htc_clear"
    /\ m_textureChanged' = TextureChangedCleared
    /\ textureCreation' = "none"
    /\ changed' = FALSE
    /\ Goto("main", "idle")
    /\ UNCHANGED <<frameRenders, m_textureCache, failuresInARow, lockOldState,
                   refreshScheduled, renderRequired, callVars, startResult,
                   mstatus, m_isRunning, m_useAnimationCache, m_pixelsUpdated,
                   m_error, m_renderingErrors, m_texture, lockVars, ctxState,
                   ctxSize, envVars, loops, task, dsLocals, instancerVars>>

\* An asynchronous FireRenderContext::Lock taken on the main thread (a scene
\* callback that updates the context): it puts the context in StateUpdating
\* while it is held ("another asynchronous lock could change context's
\* state", start()).
ContextLock ==
    /\ pc["main"] = "idle"
    /\ threadRunning
    /\ ctxLock = "free"
    /\ ctxLock' = "main"
    /\ lockOldState' = ctxState
    /\ ctxState' = "StateUpdating"
    /\ Goto("main", "ctx_update")
    /\ CallBegins
    /\ UNCHANGED <<frameRenders, m_textureCache, changed, failuresInARow,
                   refreshScheduled, renderRequired, callVars, m_isRunning,
                   m_useAnimationCache, m_pixelsUpdated, m_pixelsLock,
                   m_error, m_renderingErrors, texVars, ctxSize, envVars,
                   loops, task, dsLocals, instancerVars>>

\* The asynchronous Lock is released and the context returns to the state
\* it was locked in.
ContextUnlock ==
    /\ pc["main"] = "ctx_update"
    /\ ctxLock' = "free"
    /\ ctxState' = lockOldState
    /\ lockOldState' = "none"
    /\ Goto("main", "idle")
    /\ UNCHANGED <<frameRenders, m_textureCache, changed, failuresInARow,
                   refreshScheduled, renderRequired, callVars, startResult,
                   mstatus, m_isRunning, m_useAnimationCache, m_pixelsUpdated,
                   m_pixelsLock, m_error, m_renderingErrors, texVars, ctxSize,
                   envVars, loops, task, dsLocals, instancerVars>>

\* preBlit(): if (isGLInteropActive()) m_pixelsLock.lock().
PreBlit ==
    /\ pc["main"] = "idle"
    /\ threadRunning
    /\ IF glInterop
       THEN /\ m_pixelsLock = "free"
            /\ m_pixelsLock' = "main"
       ELSE UNCHANGED m_pixelsLock
    /\ Goto("main", "blit")
    /\ CallBegins
    /\ UNCHANGED <<frameRenders, m_textureCache, changed, failuresInARow,
                   lockOldState, refreshScheduled, renderRequired, callVars,
                   m_isRunning, m_useAnimationCache, m_pixelsUpdated, m_error,
                   m_renderingErrors, texVars, ctxLock, ctxState, ctxSize,
                   envVars, loops, task, dsLocals, instancerVars>>

\* postBlit(): if (isGLInteropActive()) m_pixelsLock.unlock().
PostBlit ==
    /\ pc["main"] = "blit"
    /\ m_pixelsLock' = IF glInterop THEN "free" ELSE m_pixelsLock
    /\ Goto("main", "idle")
    /\ UNCHANGED <<frameRenders, m_textureCache, changed, failuresInARow,
                   lockOldState, refreshScheduled, renderRequired, callVars,
                   startResult, mstatus, m_isRunning, m_useAnimationCache,
                   m_pixelsUpdated, m_error, m_renderingErrors, texVars,
                   ctxLock, ctxState, ctxSize, envVars, loops, task, dsLocals,
                   instancerVars>>

\* cameraChanged(): RunOnceAndWait of the lambda.
CameraChanged ==
    /\ pc["main"] = "idle"
    /\ threadRunning
    /\ task' = "q_camera"
    /\ Goto("main", "camera_wait")
    /\ CallBegins
    /\ UNCHANGED <<frameRenders, m_textureCache, changed, failuresInARow,
                   lockOldState, refreshScheduled, renderRequired, callVars,
                   m_isRunning, m_useAnimationCache, m_pixelsUpdated, m_error,
                   m_renderingErrors, texVars, lockVars, ctxState, ctxSize,
                   envVars, loops, dsLocals, instancerVars>>

\* ~FireRenderViewport(): stop() first.
DtorBegin ==
    /\ pc["main"] = "idle"
    /\ Goto("main", "stop_wait")
    /\ stopRet' = [stopRet EXCEPT !["main"] = "dtor_cleanup"]
    /\ CallBegins
    /\ UNCHANGED <<frameRenders, m_textureCache, changed, failuresInARow,
                   lockOldState, refreshScheduled, renderRequired, startRet,
                   m_isRunning, m_useAnimationCache, m_pixelsUpdated, m_error,
                   m_renderingErrors, texVars, lockVars, ctxState, ctxSize,
                   envVars, loops, task, dsLocals, instancerVars>>

\* ~FireRenderViewport(): RunOnceProcAndWait(cleanUp).  Without a running
\* render thread the procedure runs on the caller; the texture is kept when
\* Maya exits.
DtorCleanup ==
    /\ pc["main"] = "dtor_cleanup"
    /\ IF threadRunning
       THEN /\ task' = "q_cleanUp"
            /\ Goto("main", "dtor_wait")
       ELSE /\ Goto("main", "dead")
            /\ UNCHANGED task
    /\ UNCHANGED <<frameRenders, m_textureCache, changed, failuresInARow,
                   lockOldState, refreshScheduled, renderRequired, callVars,
                   startResult, mstatus, m_isRunning, m_useAnimationCache,
                   m_pixelsUpdated, m_error, m_renderingErrors, texVars,
                   lockVars, ctxState, ctxSize, envVars, loops, dsLocals,
                   instancerVars>>

\* ~FireRenderViewport(): the clean-up has run, the object is gone.
DtorReturn ==
    /\ pc["main"] = "dtor_wait"
    /\ task = "done"
    /\ task' = "none"
    /\ Goto("main", "dead")
    /\ UNCHANGED <<frameRenders, m_textureCache, changed, failuresInARow,
                   lockOldState, refreshScheduled, renderRequired, callVars,
                   startResult, mstatus, m_isRunning, m_useAnimationCache,
                   m_pixelsUpdated, m_error, m_renderingErrors, texVars,
                   lockVars, ctxState, ctxSize, envVars, loops, dsLocals,
                   instancerVars>>

\* Maya exits: the render thread is shut down between two of its items.
ExitMaya ==
    /\ pc["main"] = "idle"
    /\ pc["render"] = "idle"
    /\ threadRunning
    /\ threadRunning' = FALSE
    /\ UNCHANGED <<frameRenders, m_textureCache, changed, failuresInARow,
                   lockOldState, refreshScheduled, renderRequired, pc,
                   callVars, startResult, mstatus, m_isRunning,
                   m_useAnimationCache, m_pixelsUpdated, m_error,
                   m_renderingErrors, texVars, lockVars, ctxState, ctxSize,
                   glInterop, loops, task, dsLocals, instancerVars>>

(***************************************************************************)
(* The render thread.  It serves one item at a time: the item the main     *)
(* thread waits for in RunOnceAndWait, or one iteration of a callback      *)
(* enqueued by KeepRunning.                                                *)
(***************************************************************************)

\* The render thread takes doSetup().
TakeDoSetup ==
    /\ pc["render"] = "idle"
    /\ threadRunning
    /\ task = "q_doSetup"
    /\ task' = "running"
    /\ Goto("render", "ds_begin")
    /\ UNCHANGED <<frameRenders, m_textureCache, changed, failuresInARow,
                   lockOldState, refreshScheduled, renderRequired, callVars,
                   startResult, mstatus, m_isRunning, m_useAnimationCache,
                   m_pixelsUpdated, m_error, m_renderingErrors, texVars,
                   lockVars, ctxState, ctxSize, envVars, loops, dsLocals,
                   instancerVars>>

\* doSetup() returns status to setup().
DsReturn(status) ==
    /\ mstatus' = status
    /\ task' = "done"
    /\ Goto("render", "idle")
    /\ startResult' = "none"
    /\ useAnimationCache' = FALSE
    /\ dsSize' = <<0, 0>>
    /\ frameHash' = NoFrame
    /\ frameResized' = FALSE

\* A doSetup() without its first error check.
SetupError_Ignored == FALSE

\* doSetup(): "Check for errors." if (m_error.check()) return kFailure.
SetupError == m_error

\* doSetup(): the first error check, getSize(), the animation state and the
\* decision to use the animation cache; stop() when the loop is running and
\* cached frames are used.
DsBegin ==
    /\ pc["render"] = "ds_begin"
    /\ IF SetupError
       THEN /\ DsReturn("kFailure")
            /\ UNCHANGED stopRet
       ELSE \E sizeOk \in BOOLEAN, raw \in RawSizes, animating \in BOOLEAN :
              IF ~sizeOk
              THEN /\ DsReturn("kFailure")
                   /\ UNCHANGED stopRet
              ELSE /\ dsSize' = GetSize(raw)
                   /\ UNCHANGED <<frameHash, frameResized>>
                   /\ useAnimationCache' =
                        (animating /\ m_useAnimationCache /\ ~glInterop)
                   /\ IF m_isRunning /\ useAnimationCache'
                      THEN /\ Goto("render", "stop_wait")
                           /\ stopRet' = [stopRet EXCEPT
                                            !["render"] = "ds_resize"]
                      ELSE /\ Goto("render", "ds_resize")
                           /\ UNCHANGED stopRet
                   /\ UNCHANGED <<mstatus, startResult, task>>
    /\ UNCHANGED <<frameRenders, m_textureCache, changed, failuresInARow,
                   lockOldState, refreshScheduled, renderRequired, startRet,
                   m_isRunning, m_useAnimationCache, m_pixelsUpdated, m_error,
                   m_renderingErrors, texVars, lockVars, ctxState, ctxSize,
                   envVars, loops, instancerVars>>

\* resize(width, height), under m_contextLock and m_pixelsLock: clears the
\* texture cache ("all frames need to be re-rendered at the new size").  outcome:
\* "ok", "throw" (an exception before the frame buffer is resized) or
\* "noview" (the frame buffer is resized, the 3D view or its camera is not
\* found).  acquired: whether acquireTexture returned a texture.
Resize(size, outcome, acquired) ==
    /\ m_pixelsLock = "free"
    /\ UNCHANGED m_pixelsLock
    /\ ClearCache
    /\ IF outcome = "throw"
       THEN /\ m_texture' = FALSE
            /\ m_error' = TRUE
            /\ UNCHANGED <<m_textureChanged, textureCreation, ctxSize,
                           m_pixelsUpdated>>
       ELSE /\ m_texture' = acquired
            /\ m_textureChanged' = TRUE
            /\ textureCreation' = Created(acquired)
            /\ m_pixelsUpdated' = IF glInterop THEN m_pixelsUpdated ELSE TRUE
            /\ ctxSize' = IF glInterop /\ ~acquired THEN ctxSize ELSE size
            /\ UNCHANGED m_error

\* doSetup(): "Check if the viewport size has changed."
DsResize ==
    /\ pc["render"] = "ds_resize"
    /\ IF dsSize # ctxSize
       THEN \E outcome \in {"ok", "throw", "noview"}, acquired \in BOOLEAN :
              /\ Resize(dsSize, outcome, acquired)
              /\ IF outcome = "ok"
                 THEN /\ Goto("render", "ds_refresh")
                      /\ UNCHANGED <<mstatus, startResult, task, dsLocals>>
                 ELSE DsReturn("kFailure")
       ELSE /\ Goto("render", "ds_refresh")
            /\ UNCHANGED <<mstatus, startResult, task, dsLocals, texVars,
                           m_pixelsUpdated, ctxSize, m_error, m_pixelsLock,
                           m_textureCache, frameRenders>>
    /\ UNCHANGED <<changed, failuresInARow, lockOldState, refreshScheduled,
                   renderRequired, callVars, m_isRunning, m_useAnimationCache,
                   m_renderingErrors, ctxLock, ctxState, envVars, loops,
                   instancerVars>>

\* refreshContext(): Freshen() when the context is dirty; an exception is
\* recorded in m_error.
DsRefresh ==
    /\ pc["render"] = "ds_refresh"
    /\ \E dirty \in BOOLEAN, ok \in BOOLEAN :
         IF dirty /\ ~ok
         THEN /\ m_error' = TRUE
              /\ DsReturn("kFailure")
         ELSE /\ Goto("render", "ds_render")
              /\ UNCHANGED <<m_error, mstatus, startResult, task, dsLocals>>
    /\ UNCHANGED <<frameRenders, m_textureCache, changed, failuresInARow,
                   lockOldState, refreshScheduled, renderRequired, callVars,
                   m_isRunning, m_useAnimationCache, m_pixelsUpdated,
                   m_renderingErrors, texVars, lockVars, ctxState, ctxSize,
                   envVars, loops, instancerVars>>

\* renderCached(width, height): clears m_pixelsUpdated, gets the frame for
\* the state hash and resizes it.  StoredFrame::Resize stores the size and
\* tells whether the frame is new or had another size.
RenderCachedFrame(hash) ==
    /\ m_pixelsUpdated' = FALSE
    /\ frameHash' = hash
    /\ frameResized' = (m_textureCache[hash] # dsSize)
    /\ m_textureCache' = [m_textureCache EXCEPT ![hash] = dsSize]
    /\ UNCHANGED <<useAnimationCache, dsSize, frameRenders>>

\* What m_context.GetStateHash() may return: a hash that has a stored frame,
\* or the next one (hashes are numbered in the order renderCached() meets
\* them after the cache was cleared).
NextStateHashes ==
    {h \in StateHashes : h = 0 \/ m_textureCache[h - 1] # NoFrame}

\* A renderCached() that renders every frame it is asked for.
RenderFrameRequired_Always(resized) == TRUE

\* renderCached(): "Render the frame if required."
\* if (frame.Resize(width, height)).
RenderFrameRequired(resized) == resized

\* renderCached(): renders into the stored frame if required (a render the
\* history counts) and updates the texture from the frame.  outcome: "ok",
\* "throw" or "failed" (the texture update reports a failure).
RenderCached(outcome, acquired) ==
    /\ frameRenders' =
         IF RenderFrameRequired(frameResized)
         THEN [frameRenders EXCEPT ![frameHash] = @ + 1]
         ELSE frameRenders
    /\ IF outcome = "throw"
       THEN /\ m_error' = TRUE
            /\ UNCHANGED texVars
       ELSE /\ UpdateTexture(acquired)
            /\ UNCHANGED m_error

\* A doSetup() that never starts the loop.
StartRequired_Never == FALSE

\* doSetup(): "Otherwise, ensure the render thread is running."
\* else if (!m_isRunning) start().
StartRequired == ~m_isRunning

\* doSetup(): the second error check, then renderCached() or start().
DsRender ==
    /\ pc["render"] = "ds_render"
    /\ IF m_error
       THEN /\ DsReturn("kFailure")
            /\ UNCHANGED <<m_pixelsUpdated, m_error, texVars, startRet,
                           m_textureCache, frameRenders>>
       ELSE IF useAnimationCache
       THEN \E hash \in NextStateHashes :
              /\ RenderCachedFrame(hash)
              /\ Goto("render", "ds_cached")
              /\ UNCHANGED <<m_error, texVars, mstatus, startResult, task,
                             startRet>>
       ELSE IF StartRequired
       THEN /\ Goto("render", "start_begin")
            /\ startRet' = [startRet EXCEPT !["render"] = "ds_done"]
            /\ UNCHANGED <<m_pixelsUpdated, m_error, texVars, mstatus,
                           startResult, task, dsLocals, m_textureCache,
                           frameRenders>>
       ELSE /\ DsReturn("kSuccess")
            /\ UNCHANGED <<m_pixelsUpdated, m_error, texVars, startRet,
                           m_textureCache, frameRenders>>
    /\ UNCHANGED <<changed, failuresInARow, lockOldState, refreshScheduled,
                   renderRequired, stopRet, m_isRunning, m_useAnimationCache,
                   m_renderingErrors, lockVars, ctxState, ctxSize, envVars,
                   loops, instancerVars>>

\* doSetup(): return renderCached(width, height), after the frame lookup.
DsCached ==
    /\ pc["render"] = "ds_cached"
    /\ \E outcome \in {"ok", "throw", "failed"}, acquired \in BOOLEAN :
         /\ RenderCached(outcome, acquired)
         /\ DsReturn(IF outcome = "ok" THEN "kSuccess" ELSE "kFailure")
    /\ UNCHANGED <<m_textureCache, changed, failuresInARow, lockOldState,
                   refreshScheduled, renderRequired, callVars, m_isRunning,
                   m_useAnimationCache, m_pixelsUpdated, m_renderingErrors,
                   lockVars, ctxState, ctxSize, envVars, loops,
                   instancerVars>>

\* doSetup(): start() has returned; "Viewport setup complete."
DsDone ==
    /\ pc["render"] = "ds_done"
    /\ DsReturn("kSuccess")
    /\ UNCHANGED <<frameRenders, m_textureCache, changed, failuresInARow,
                   lockOldState, refreshScheduled, renderRequired, callVars,
                   m_isRunning, m_useAnimationCache, m_pixelsUpdated, m_error,
                   m_renderingErrors, texVars, lockVars, ctxState, ctxSize,
                   envVars, loops, instancerVars>>

\* The lambda of cameraChanged(): an exception is recorded in m_error.
TakeCamera ==
    /\ pc["render"] = "idle"
    /\ threadRunning
    /\ task = "q_camera"
    /\ \E ok \in BOOLEAN :
         /\ m_error' = (m_error \/ ~ok)
         /\ mstatus' = IF ok THEN "kSuccess" ELSE "kFailure"
    /\ task' = "done"
    /\ UNCHANGED <<frameRenders, m_textureCache, changed, failuresInARow,
                   lockOldState, refreshScheduled, renderRequired, pc,
                   callVars, startResult, m_isRunning, m_useAnimationCache,
                   m_pixelsUpdated, m_renderingErrors, texVars, lockVars,
                   ctxState, ctxSize, envVars, loops, dsLocals,
                   instancerVars>>

\* The render thread takes cleanUp().
TakeCleanUp ==
    /\ pc["render"] = "idle"
    /\ threadRunning
    /\ task = "q_cleanUp"
    /\ task' = "running"
    /\ Goto("render", "cleanup")
    /\ UNCHANGED <<frameRenders, m_textureCache, changed, failuresInARow,
                   lockOldState, refreshScheduled, renderRequired, callVars,
                   startResult, mstatus, m_isRunning, m_useAnimationCache,
                   m_pixelsUpdated, m_error, m_renderingErrors, texVars,
                   lockVars, ctxState, ctxSize, envVars, loops, dsLocals,
                   instancerVars>>

\* cleanUp(): cleans the scene and releases the hardware texture.
CleanUp ==
    /\ pc["render"] = "cleanup"
    /\ m_texture' = FALSE
    /\ task' = "done"
    /\ Goto("render", "idle")
    /\ UNCHANGED <<frameRenders, m_textureCache, changed, failuresInARow,
                   lockOldState, refreshScheduled, renderRequired, callVars,
                   startResult, mstatus, m_isRunning, m_useAnimationCache,
                   m_pixelsUpdated, m_error, m_renderingErrors,
                   m_textureChanged, textureCreation, lockVars, ctxState,
                   ctxSize, envVars, loops, dsLocals, instancerVars>>

(***************************************************************************)
(* One iteration of the callback enqueued by start():                      *)
(*   try { m_isRunning = RunOnViewportThread(); }                          *)
(*   catch (...) { m_isRunning = false; m_error.set(...); }                *)
(*   return m_isRunning;                                                   *)
(***************************************************************************)

\* The render thread runs the next iteration of an enqueued callback.
\* renderRequired is what the context answers in this iteration to
\* cameraAttributeChanged() || needsRedraw() || keepRenderRunning().
TakeLoop ==
    /\ pc["render"] = "idle"
    /\ threadRunning
    /\ loops > 0
    /\ Goto("render", "rv_switch")
    /\ renderRequired' \in BOOLEAN
    /\ UNCHANGED <<frameRenders, m_textureCache, changed, failuresInARow,
                   lockOldState, refreshScheduled, callVars, startResult,
                   mstatus, m_isRunning, m_useAnimationCache, m_pixelsUpdated,
                   m_error, m_renderingErrors, texVars, lockVars, ctxState,
                   ctxSize, envVars, loops, task, dsLocals, instancerVars>>

\* The callback returns keep: m_isRunning = keep, and a callback that
\* returns false leaves the queue.
LoopReturn(keep) ==
    /\ m_isRunning' = keep
    /\ loops' = IF keep THEN loops ELSE loops - 1
    /\ Goto("render", "idle")
    /\ renderRequired' = FALSE

\* A loop that renders in every iteration of StateRendering.
RenderRequired_Always == TRUE

\* RunOnViewportThread(): if (m_context.cameraAttributeChanged() ||
\* m_context.needsRedraw() || m_context.keepRenderRunning()).
RenderRequired == renderRequired

\* RunOnViewportThread(): switch (m_context.state), and in StateRendering
\* "Check if a render is required."  When it is, the FireRenderContext::Lock
\* is taken for the iteration.
RvSwitch ==
    /\ pc["render"] = "rv_switch"
    /\ IF ctxState = "StateExiting"
       THEN /\ LoopReturn(FALSE)
            /\ UNCHANGED ctxLock
       ELSE IF ctxState = "StateRendering"
       THEN IF RenderRequired
            THEN /\ ctxLock = "free"
                 /\ ctxLock' = "render"
                 /\ Goto("render", "rv_render")
                 /\ UNCHANGED <<m_isRunning, loops, renderRequired>>
            ELSE /\ LoopReturn(TRUE)
                 /\ UNCHANGED ctxLock
       ELSE /\ LoopReturn(TRUE)
            /\ UNCHANGED ctxLock
    /\ UNCHANGED <<frameRenders, m_textureCache, changed, failuresInARow,
                   lockOldState, refreshScheduled, callVars, startResult,
                   mstatus, m_useAnimationCache, m_pixelsUpdated,
                   m_pixelsLock, m_error, m_renderingErrors, texVars,
                   ctxState, ctxSize, envVars, task, dsLocals, instancerVars>>

\* RunOnViewportThread(): catch (...) of a failed render iteration.  The
\* locks are released by unwinding; the exception is rethrown, and caught by
\* the callback, after more than MaxRenderingErrors errors.
RvCatch ==
    /\ ctxLock' = "free"
    /\ UNCHANGED m_pixelsLock
    /\ refreshScheduled' = TRUE
    /\ m_renderingErrors' = m_renderingErrors + 1
    /\ failuresInARow' = failuresInARow + 1
    /\ IF m_renderingErrors' > MaxRenderingErrors
       THEN /\ LoopReturn(FALSE)
            /\ m_error' = TRUE
       ELSE /\ LoopReturn(TRUE)
            /\ UNCHANGED m_error

\* RunOnViewportThread(): m_context.render(false) under m_contextLock.
RvRender ==
    /\ pc["render"] = "rv_render"
    /\ \E ok \in BOOLEAN :
         IF ok
         THEN /\ Goto("render", "rv_pixels")
              /\ UNCHANGED <<lockVars, m_renderingErrors, m_isRunning, loops,
                             m_error, renderRequired, refreshScheduled,
                             failuresInARow>>
         ELSE RvCatch
    /\ UNCHANGED <<frameRenders, m_textureCache, changed, lockOldState,
                   callVars, startResult, mstatus, m_useAnimationCache,
                   m_pixelsUpdated, texVars, ctxState, ctxSize, envVars, task,
                   dsLocals, instancerVars>>

\* A render iteration that reads the frame buffer without m_pixelsLock.
PixelsLockAcquired_NotTaken == TRUE

\* RunOnViewportThread(): AutoMutexLock pixelsLock(m_pixelsLock) returns once
\* no other thread holds the mutex.
PixelsLockAcquired == m_pixelsLock = "free"

\* RunOnViewportThread(): { AutoMutexLock pixelsLock(m_pixelsLock);
\* readFrameBuffer(); } (with GL interop only the resolve into the shared
\* buffer), then an earlier error is forgiven, the context Lock is released,
\* a Maya viewport refresh is scheduled and the iteration returns true.
RvRead ==
    /\ pc["render"] = "rv_pixels"
    /\ PixelsLockAcquired
    /\ \E ok \in BOOLEAN :
         IF ok
         THEN /\ m_pixelsUpdated' = IF glInterop THEN m_pixelsUpdated ELSE TRUE
              /\ UNCHANGED m_pixelsLock
              /\ ctxLock' = "free"
              /\ m_renderingErrors' =
                   IF m_renderingErrors > 0
                   THEN m_renderingErrors - 1 ELSE m_renderingErrors
              /\ refreshScheduled' = TRUE
              /\ failuresInARow' = 0
              /\ LoopReturn(TRUE)
              /\ UNCHANGED m_error
         ELSE /\ RvCatch
              /\ UNCHANGED m_pixelsUpdated
    /\ UNCHANGED <<frameRenders, m_textureCache, changed, lockOldState,
                   callVars, startResult, mstatus, m_useAnimationCache,
                   texVars, ctxState, ctxSize, envVars, task, dsLocals,
                   instancerVars>>

Next ==
    \/ \E t \in Threads : StopWait(t)
    \/ \E t \in Threads : StartBegin(t)
    \/ \E t \in Threads : StartDims(t)
    \/ \E t \in Threads : StartSet(t)
    \/ \E t \in Threads : StartReset(t)
    \/ \E t \in Threads : StartEnqueue(t)
    \/ SetupBegin
    \/ SetupLock
    \/ SetupTex
    \/ SetupDispatch
    \/ RunOnceReturn
    \/ ApiStart
    \/ ApiStop
    \/ RefreshBegin
    \/ Refresh
    \/ SetUseAnimationCache
    \/ PreBlit
    \/ PostBlit
    \/ CameraChanged
    \/ ContextLock
    \/ ContextUnlock
    \/ HasTextureChangedRead
    \/ HasTextureChanged
    \/ ClearTextureCache
    \/ DtorBegin
    \/ DtorCleanup
    \/ DtorReturn
    \/ ExitMaya
    \/ TakeDoSetup
    \/ DsBegin
    \/ DsResize
    \/ DsRefresh
    \/ DsRender
    \/ DsCached
    \/ DsDone
    \/ TakeCamera
    \/ TakeCleanUp
    \/ CleanUp
    \/ TakeLoop
    \/ RvSwitch
    \/ RvRender
    \/ RvRead

Spec == Init /\ [][Next]_vars

\* The steps of the render thread, and the steps by which the main thread
\* continues a call it is in.  Both threads keep being scheduled; when Maya
\* makes its next call, and whether it exits, is up to Maya.
RenderStep ==
    \/ StopWait("render") \/ StartBegin("render") \/ StartDims("render")
    \/ StartSet("render") \/ StartReset("render") \/ StartEnqueue("render")
    \/ TakeDoSetup \/ DsBegin \/ DsResize \/ DsRefresh \/ DsRender \/ DsCached \/ DsDone
    \/ TakeCamera \/ TakeCleanUp \/ CleanUp
    \/ TakeLoop \/ RvSwitch \/ RvRender \/ RvRead

MainStep ==
    \/ StopWait("main") \/ StartBegin("main") \/ StartDims("main")
    \/ StartSet("main") \/ StartReset("main") \/ StartEnqueue("main")
    \/ SetupLock \/ SetupTex \/ SetupDispatch \/ RunOnceReturn \/ Refresh
    \/ PostBlit \/ DtorCleanup \/ DtorReturn \/ ContextUnlock
    \/ HasTextureChanged

FairSpec == Spec /\ WF_vars(RenderStep) /\ WF_vars(MainStep)

(***************************************************************************)
(* InstancerMASH: the instances generated for a MASH instancer node.  Its  *)
(* methods run on the main thread, from Maya's dirty-plug callback and     *)
(* from the context's Freshen; they share no state with the viewport.      *)
(***************************************************************************)

\* GenerateInstances(): one visible instance per index of the instance
\* count (numbered from 1 here).
GenerateInstances(count) == [i \in 1..count |-> TRUE]

\* InstancerMASH::InstancerMASH for a node with a target object:
\* m_instancedObjectsCachedSize(0), GenerateInstances().
InstancerInit ==
    /\ ViewportInit
    /\ instanceCount \in 0..MaxInstances
    /\ targetObjects = 1
    /\ m_instancedObjects = GenerateInstances(instanceCount)
    /\ m_instancedObjectsCachedSize = 0
    /\ instancerDirty = FALSE
    /\ ipc = "idle"

\* Maya: an attribute or a connection of the instancer node changes, and the
\* dirty-plug callback registered by RegisterCallbacks() is called.
PlugChanged ==
    /\ ipc = "idle"
    /\ instanceCount' \in 0..MaxInstances
    /\ targetObjects' \in {0, 1}
    /\ ipc' = "plug_dirty"
    /\ UNCHANGED <<viewportVars, m_instancedObjects,
                   m_instancedObjectsCachedSize, instancerDirty>>

\* An instancer that is recreated only when the instance count changed.
ShouldBeRecreated_CountOnly == instanceCount # m_instancedObjectsCachedSize

\* ShouldBeRecreated(): (GetInstanceCount() != m_instancedObjectsCachedSize)
\* || GetTargetObjects().empty().
ShouldBeRecreated ==
    \/ instanceCount # m_instancedObjectsCachedSize
    \/ targetObjects = 0

\* OnPlugDirty(): if (ShouldBeRecreated()) every instance is hidden.
OnPlugDirty ==
    /\ ipc = "plug_dirty"
    /\ IF ShouldBeRecreated
       THEN /\ m_instancedObjects' =
                 [i \in DOMAIN m_instancedObjects |-> FALSE]
            /\ ipc' = "opd_clear"
       ELSE /\ ipc' = "opd_dirty"
            /\ UNCHANGED m_instancedObjects
    /\ UNCHANGED <<viewportVars, instanceCount, targetObjects,
                   m_instancedObjectsCachedSize, instancerDirty>>

\* OnPlugDirty(): m_instancedObjects.clear().
OnPlugDirtyClear ==
    /\ ipc = "opd_clear"
    /\ m_instancedObjects' = <<>>
    /\ ipc' = "opd_dirty"
    /\ UNCHANGED <<viewportVars, instanceCount, targetObjects,
                   m_instancedObjectsCachedSize, instancerDirty>>

\* OnPlugDirty(): setDirty().
OnPlugDirtySetDirty ==
    /\ ipc = "opd_dirty"
    /\ instancerDirty' = TRUE
    /\ ipc' = "idle"
    /\ UNCHANGED <<viewportVars, instanceCount, targetObjects,
                   m_instancedObjects, m_instancedObjectsCachedSize>>

\* Freshen(): nothing without target objects; otherwise the instances are
\* generated if there are none, each instance below the instance count is
\* rebuilt (m_instancedObjects.at(i) throws when it is missing) and the
\* instance count is cached.  The context clears the dirty mark of a node it
\* has freshened.
InstancerFreshen ==
    /\ ipc = "idle"
    /\ instancerDirty' = FALSE
    /\ IF targetObjects = 0
       THEN UNCHANGED <<m_instancedObjects, m_instancedObjectsCachedSize>>
       ELSE /\ m_instancedObjects' =
                 IF m_instancedObjects = <<>>
                 THEN GenerateInstances(instanceCount)
                 ELSE m_instancedObjects
            /\ m_instancedObjectsCachedSize' =
                 IF 1..instanceCount \subseteq DOMAIN m_instancedObjects'
                 THEN instanceCount
                 ELSE m_instancedObjectsCachedSize
    /\ UNCHANGED <<viewportVars, instanceCount, targetObjects, ipc>>

InstancerNext ==
    \/ PlugChanged
    \/ OnPlugDirty
    \/ OnPlugDirtyClear
    \/ OnPlugDirtySetDirty
    \/ InstancerFreshen

InstancerSpec == InstancerInit /\ [][InstancerNext]_vars

(***************************************************************************)
(* Properties.                                                             *)
(***************************************************************************)

RenderIterationPcs == {"rv_switch", "rv_render", "rv_pixels"}
DoSetupPcs ==
    {"ds_begin", "ds_resize", "ds_refresh", "ds_render", "ds_cached", "ds_done"}
SetupPcs == {"setup_lock", "setup_tex", "setup_dispatch", "setup_wait"}
DtorStoppedPcs == {"dtor_cleanup", "dtor_wait", "dead"}

\* C1: once the destructor's stop() has returned, and while cleanUp() runs
\* and after it, no callback enqueued by an earlier start() is left that the
\* render thread can still iterate.
C1_NoLoopAfterStop ==
    (pc["main"] \in DtorStoppedPcs \/ pc["render"] = "cleanup")
        => (loops = 0 \/ ~threadRunning)

\* C2: a thread that waits in stop() eventually leaves stop(), whoever
\* called it.
C2_StopReturns ==
    \A t \in Threads : (pc[t] = "stop_wait") ~> (pc[t] # "stop_wait")

\* C3: setup() and stop() execute on the main thread only; doSetup(),
\* RunOnViewportThread() and refreshContext() on the render thread only.
C3_ThreadAffinity ==
    \A t \in Threads :
        /\ pc[t] \in SetupPcs \cup {"stop_wait"} => MainThreadOnly(t)
        /\ pc[t] \in DoSetupPcs \cup RenderIterationPcs => RprThreadOnly(t)

\* C4: at most one callback enqueued by start() is active for the viewport.
C4_AtMostOneLoop == loops <= 1

\* C5: start() with a context width or height of 0 returns false and leaves
\* the context state, m_renderingErrors, m_isRunning and the enqueued loops
\* alone; otherwise it sets StateRendering under the context Lock, resets
\* m_renderingErrors, enqueues exactly one loop and returns true.  Only
\* start() sets StateRendering (an asynchronous Lock can but restore it).
C5_StartContract ==
    [][\A t \in Threads :
        /\ (/\ pc[t] = "start_dims" /\ pc'[t] # "start_dims"
            /\ (ctxSize[1] = 0 \/ ctxSize[2] = 0))
             => /\ startResult' = "false"
                /\ pc'[t] = startRet[t]
                /\ UNCHANGED <<ctxState, m_renderingErrors, m_isRunning,
                               loops>>
        /\ pc'[t] \in {"start_set", "start_reset", "start_enqueue"}
             => (ctxSize'[1] # 0 /\ ctxSize'[2] # 0)
        /\ (pc[t] = "start_set" /\ pc'[t] # "start_set")
             => (ctxLock = "free" /\ ctxState' = "StateRendering")
        /\ (pc[t] = "start_reset" /\ pc'[t] # "start_reset")
             => m_renderingErrors' = 0
        /\ (pc[t] = "start_enqueue" /\ pc'[t] # "start_enqueue")
             => (loops' = loops + 1 /\ startResult' = "true")
        /\ (ctxState' = "StateRendering" /\ ctxState # "StateRendering")
             => \/ \E u \in Threads : pc[u] = "start_set"
                \/ lockOldState = "StateRendering"
      ]_vars

\* C5 witness: a start() has returned false on a context of zero height.
C5_Witness ==
    /\ startResult = "false"
    /\ ctxSize[1] # 0 /\ ctxSize[2] = 0
    /\ loops = 0

\* C6: when doSetup() uses the animation cache while the loop is running,
\* the loop is stopped and doSetup() goes on to resize, refresh and render
\* the cached frame.
C6_LoopStoppedThenCached ==
    (pc["render"] = "stop_wait" /\ useAnimationCache)
        ~> (pc["render"] = "ds_resize")

C8_ErrorIsSticky ==
    [][/\ m_error => m_error'
       /\ (/\ m_error
           /\ pc["render"] = "ds_begin" /\ pc'["render"] # "ds_begin")
            => /\ pc'["render"] = "idle"
               /\ task' = "done"
               /\ mstatus' = "kFailure"
               /\ UNCHANGED <<ctxSize, ctxState, m_texture, m_textureChanged,
                              m_pixelsUpdated, loops>>
       /\ (m_error /\ pc["main"] = "refresh" /\ pc'["main"] # "refresh")
            => mstatus' = "kFailure"
       /\ (~m_error /\ m_error' /\ pc["render"] \in RenderIterationPcs)
            => (~m_isRunning' /\ loops' = loops - 1)
      ]_vars

\* C8 witness: doSetup() is entered after an error was recorded.
C8_Witness == m_error /\ pc["render"] = "ds_begin"

\* C9: setup() copies the pixels exactly when GL interop is inactive and
\* m_pixelsUpdated; the copy is made under m_pixelsLock, which is released
\* before doSetup() is dispatched; with GL interop setup() touches neither
\* the texture nor the lock.
C9_SetupTextureCopy ==
    [][/\ (pc["main"] = "idle" /\ pc'["main"] \in SetupPcs)
            => /\ pc'["main"] \in {"setup_lock", "setup_dispatch"}
               /\ pc'["main"] = "setup_lock"
                    <=> (~glInterop /\ m_pixelsUpdated)
       /\ pc'["main"] = "setup_tex" => m_pixelsLock' = "main"
       /\ (/\ pc["main"] \in SetupPcs \ {"setup_wait"}
           /\ <<m_texture, m_textureChanged>>' # <<m_texture, m_textureChanged>>)
            => (pc["main"] = "setup_tex" /\ m_pixelsLock = "main")
       /\ pc'["main"] \in {"setup_dispatch", "setup_wait"}
            => m_pixelsLock' # "main"
       /\ (glInterop /\ pc'["main"] \in SetupPcs \ {"setup_wait"})
            => UNCHANGED <<m_texture, m_textureChanged, m_pixelsLock>>
      ]_vars

\* C9 witness: setup() copies the pixels into the texture under the lock.
C9_Witness ==
    /\ pc["main"] = "setup_tex"
    /\ m_pixelsLock = "main"
    /\ ~glInterop /\ m_pixelsUpdated

\* C10: with GL interop the main thread holds m_pixelsLock from preBlit() to
\* postBlit(), the render thread does not read the frame buffer in between,
\* and postBlit() releases the lock; without GL interop neither call touches
\* the lock.
C10_BlitExclusive ==
    [][/\ (glInterop /\ pc'["main"] = "blit") => m_pixelsLock' = "main"
       /\ (glInterop /\ pc["main"] = "blit")
            => ~(pc["render"] = "rv_pixels" /\ pc'["render"] # "rv_pixels")
       /\ (glInterop /\ pc["main"] = "blit" /\ pc'["main"] # "blit")
            => m_pixelsLock' = "free"
       /\ (~glInterop /\ (pc["main"] = "blit" \/ pc'["main"] = "blit"))
            => m_pixelsLock' = m_pixelsLock
      ]_vars

\* C10 witness: Maya blits the shared buffer while the render thread waits
\* for m_pixelsLock to read the frame buffer.
C10_Witness ==
    /\ glInterop
    /\ pc["main"] = "blit"
    /\ m_pixelsLock = "main"
    /\ pc["render"] = "rv_pixels"

\* C11: RunOnViewportThread() returns false exactly when it finds the context
\* in StateExiting; it renders exactly when it finds StateRendering and a
\* render is required, and then the frame buffer is read only after the
\* render and a refresh is scheduled; in every other case it changes nothing
\* and returns true; once rendering it returns true unless it rethrows.
C11_IterationContract ==
    [][/\ (pc["render"] = "rv_switch" /\ pc'["render"] # "rv_switch")
            => /\ pc'["render"] \in {"idle", "rv_render"}
               /\ (ctxState = "StateExiting")
                    <=> (pc'["render"] = "idle" /\ ~m_isRunning')
               /\ (pc'["render"] = "rv_render")
                    <=> (ctxState = "StateRendering" /\ renderRequired)
               /\ (pc'["render"] = "idle" /\ ctxState # "StateExiting")
                    => (m_isRunning' /\ loops' = loops)
               /\ UNCHANGED <<m_pixelsUpdated, m_renderingErrors, m_error,
                              refreshScheduled, ctxState>>
       /\ (pc'["render"] = "rv_render" /\ pc["render"] # "rv_render")
            => pc["render"] = "rv_switch"
       /\ (pc'["render"] = "rv_pixels" /\ pc["render"] # "rv_pixels")
            => pc["render"] = "rv_render"
       /\ (pc["render"] \in {"rv_render", "rv_pixels"}
           /\ pc'["render"] = "idle")
            => /\ refreshScheduled'
               /\ m_isRunning' \/ m_renderingErrors' > MaxRenderingErrors
               /\ m_isRunning' => loops' = loops
      ]_vars

\* C11 witness: an iteration found StateRendering and a required render,
\* has rendered and is about to read the frame buffer.
C11_Witness ==
    /\ pc["render"] = "rv_pixels"
    /\ ctxState = "StateRendering"
    /\ renderRequired
    /\ m_isRunning

\* C12: the loop is aborted (m_renderingErrors above 3, the exception
\* rethrown) only after more than 3 render iterations have failed in a row.
C12_AbortAfterFailuresInARow ==
    m_renderingErrors > MaxRenderingErrors
        => failuresInARow > MaxRenderingErrors

\* C13 (as claimed): hasTextureChanged() returns true exactly when
\* updateTexture() has created a new hardware texture since the previous
\* hasTextureChanged().
C13_ChangedIffTextureCreated ==
    pc["main"] = "htc_clear" => (changed <=> textureCreation = "created")

\* C13 (amended): hasTextureChanged() returns true exactly when
\* updateTexture() has run its creation branch since the previous
\* hasTextureChanged(), whether or not a texture was acquired; it clears the
\* flag, so a second call with no creation in between returns false; and the
\* flag is set only where no hardware texture existed or resize() released
\* it, never by an update in place.
C13_ReadAndClear ==
    [][/\ pc["main"] = "htc_clear" => (changed <=> textureCreation # "none")
       /\ (pc["main"] = "htc_clear" /\ pc'["main"] # "htc_clear")
            => (~m_textureChanged' /\ m_texture' = m_texture)
       /\ m_textureChanged <=> textureCreation # "none"
       /\ (textureCreation' # textureCreation /\ textureCreation' # "none")
            => (m_textureChanged' /\ (~m_texture \/ pc["render"] = "ds_resize"))
       /\ (m_texture /\ m_texture' /\ pc["render"] # "ds_resize")
            => (m_textureChanged' => m_textureChanged)
      ]_vars

\* C13 witness: hasTextureChanged() is called a second time with no texture
\* creation in between, on an existing texture, and is about to return false.
C13_Witness ==
    /\ pc["main"] = "htc_clear"
    /\ ~changed
    /\ m_texture
    /\ textureCreation = "none"

\* C14: renderCached() renders exactly when frame.Resize(width, height)
\* reports a new or differently sized frame for the state hash, and then the
\* frame is stored at that size; otherwise it renders nothing and updates
\* the texture from the stored frame.  Hence no state hash is rendered more
\* than once between two cache clears, and every rendered hash has a stored
\* frame.
C14_RenderIfRequired ==
    [][/\ (pc["render"] = "ds_render" /\ pc'["render"] = "ds_cached")
            => /\ frameHash' \in StateHashes
               /\ frameResized' <=> (m_textureCache[frameHash'] # dsSize)
               /\ m_textureCache' =
                    [m_textureCache EXCEPT ![frameHash'] = dsSize]
               /\ frameRenders' = frameRenders
               /\ ~m_pixelsUpdated'
       /\ (pc["render"] = "ds_cached" /\ pc'["render"] # "ds_cached")
            => /\ frameRenders' =
                    [frameRenders EXCEPT
                       ![frameHash] = IF frameResized THEN @ + 1 ELSE @]
               /\ m_textureCache' = m_textureCache
               /\ ~frameResized => (m_texture => UNCHANGED texVars)
       /\ \A h \in StateHashes :
            /\ frameRenders'[h] <= 1
            /\ frameRenders'[h] = 1 => m_textureCache'[h] # NoFrame
            /\ frameRenders'[h] > frameRenders[h] => pc["render"] = "ds_cached"
      ]_vars

\* C14 witness: renderCached() is called again with a state hash whose frame
\* was rendered at this size since the last clear, and is about to update
\* the texture from the stored frame.
C14_Witness ==
    /\ pc["render"] = "ds_cached"
    /\ ~frameResized
    /\ frameRenders[frameHash] = 1
    /\ m_textureCache[frameHash] = dsSize

\* C15: OnPlugDirty() hides every instance and then empties
\* m_instancedObjects exactly when the instance count differs from
\* m_instancedObjectsCachedSize or there is no target object; otherwise the
\* instances stay as they are; either way the instancer is marked dirty
\* when OnPlugDirty() returns.
C15_RecreatedWhenRequired ==
    [][/\ (ipc = "plug_dirty" /\ ipc' # "plug_dirty")
            => /\ ipc' \in {"opd_clear", "opd_dirty"}
               /\ (ipc' = "opd_clear")
                    <=> \/ instanceCount # m_instancedObjectsCachedSize
                        \/ targetObjects = 0
               /\ (ipc' = "opd_clear")
                    => /\ DOMAIN m_instancedObjects' = DOMAIN m_instancedObjects
                       /\ \A i \in DOMAIN m_instancedObjects' :
                            ~m_instancedObjects'[i]
               /\ (ipc' = "opd_dirty")
                    => m_instancedObjects' = m_instancedObjects
       /\ (ipc = "opd_clear" /\ ipc' # "opd_clear")
            => (m_instancedObjects' = <<>> /\ ipc' = "opd_dirty")
       /\ (ipc = "opd_dirty" /\ ipc' # "opd_dirty")
            => /\ ipc' = "idle"
               /\ instancerDirty'
               /\ m_instancedObjects' = m_instancedObjects
       /\ (ipc \in {"plug_dirty", "opd_clear", "opd_dirty"})
            => UNCHANGED <<instanceCount, targetObjects,
                           m_instancedObjectsCachedSize>>
      ]_vars

\* C15 witness: OnPlugDirty() has hidden the instances of an instancer whose
\* instance count is the cached one but which has lost its target objects,
\* and is about to empty m_instancedObjects.
C15_Witness ==
    /\ ipc = "opd_clear"
    /\ targetObjects = 0
    /\ instanceCount = m_instancedObjectsCachedSize
    /\ m_instancedObjects # <<>>
    /\ \A i \in DOMAIN m_instancedObjects : ~m_instancedObjects[i]
====
